---- MODULE Spec2Model ----
(***************************************************************************)
(* Model of the chunking and dual-collection retrieval core of the RAG    *)
(* server: rag/src/utils/text_processing.py and                           *)
(* rag/src/services/vector_store_service.py, and of the chat summary      *)
(* service, rag/src/services/chat_summary_service.py.                     *)
(*                                                                         *)
(* Text representation.  A string is represented by a "piece": the record *)
(*   [w  |-> number of whitespace-separated words,                        *)
(*    c  |-> number of characters (len),                                  *)
(*    wl |-> width of one word including the separator that follows it,   *)
(*    dbl|-> number of blank-line separators ("\n\n") inside it,          *)
(*    ids|-> the sequence of source units (lines or paragraphs) whose     *)
(*           text the string contains, in order]                          *)
(* so that len(), str.split(), concatenation and slicing are computed as  *)
(* the code computes them, on strings whose words all have the same       *)
(* width.  The empty string is the piece with c = 0.                      *)
(* A raw document text is a sequence of lines; a line is a header line    *)
(* [kind |-> "hdr", label |-> ..., w |-> 1, id |-> position] or a line    *)
(* holding one sentence that ends with a full stop,                       *)
(* [kind |-> "sent", label |-> "", w |-> words, id |-> position], or a    *)
(* blank line [kind |-> "blank", ...]; the lines that only the normalizer *)
(* tells apart are listed with preprocess_text.                           *)
(***************************************************************************)
EXTENDS Integers, Sequences, FiniteSets, TLC

VARIABLES
    fine,       \* self.fine_collection: the set of stored entries
    coarse,     \* self.coarse_collection: the set of stored entries
    nextId,     \* the identifiers uuid.uuid4() has handed out so far
    ret,        \* the last store call: its operation, arguments and result
    ingested,   \* history: the documents ingest_paper_text was called with
    succeeded,  \* history: the documents whose ingest_paper_text returned True
    calls,      \* the number of ingest_paper_text calls made
    fn          \* the last call of a chunking function: arguments and result

vars == <<fine, coarse, nextId, ret, ingested, succeeded, calls, fn>>

storeVars == <<fine, coarse, nextId, ret, ingested, succeeded, calls>>

----------------------------------------------------------------------------
(* Strings as pieces *)

EmptyStr(wl) == [w |-> 0, c |-> 0, wl |-> wl, dbl |-> 0, ids |-> <<>>]

\* A string of n words of width wl - 1 joined by single separators.
Words(n, wl, ids) ==
    [w |-> n, c |-> IF n = 0 THEN 0 ELSE n * wl - 1, wl |-> wl, dbl |-> 0, ids |-> ids]

\* a + sep + b for a separator of sepLen whitespace characters.
Join(a, sepLen, b) ==
    [w |-> a.w + b.w, c |-> a.c + sepLen + b.c, wl |-> a.wl,
     dbl |-> a.dbl + b.dbl + (sepLen - 1), ids |-> a.ids \o b.ids]

\* bool(s) of a Python string: non-empty.
NonEmpty(s) == s.c > 0

Min(a, b) == IF a <= b THEN a ELSE b

Max(a, b) == IF a >= b THEN a ELSE b

\* len(text.split()): the word-count fallback of count_tokens.
count_tokens(s) == s.w


RECURSIVE Flatten(_)
Flatten(chunks) == IF chunks = <<>> THEN <<>> ELSE Head(chunks).ids \o Flatten(Tail(chunks))

----------------------------------------------------------------------------
(* create_fine_chunks: the Sentence-Budgeted Merger *)

\* re.split(r'(?<=[.!?])\s+', text), stripped, empties dropped.  A header line
\* carries no closing punctuation, so it runs into the sentence after it.
RECURSIVE SplitSentences(_, _, _, _)
SplitSentences(text, wl, i, carry) ==
    IF i > Len(text)
    THEN IF carry > 0 THEN <<Words(carry, wl, <<text[Len(text)].id>>)>> ELSE <<>>
    ELSE IF text[i].kind = "blank"
         THEN SplitSentences(text, wl, i + 1, carry)
    ELSE IF text[i].kind = "hdr"
         THEN SplitSentences(text, wl, i + 1, carry + text[i].w)
         ELSE <<Words(carry + text[i].w, wl, <<text[i].id>>)>>
              \o SplitSentences(text, wl, i + 1, 0)

\* line 503: the character-limit close keeps the running chunk only if ...
CharCloseKeeps(current, n, p) ==
    current.c >= p.min_chars /\ n >= p.min_sentences

\* line 511: the sentence-limit close keeps the running chunk only if ...
SentCloseKeeps(current, n, p) ==
    current.c >= p.min_chars

FinalCloseDropMinChars(current, n, p) ==
    NonEmpty(current) /\ n >= p.min_sentences

\* line 521: the end-of-input close keeps the running chunk only if ...
FinalCloseKeeps(current, n, p) ==
    NonEmpty(current) /\ current.c >= p.min_chars /\ n >= p.min_sentences

\* lines 496-522: the loop over the sentences, then the final close.
RECURSIVE FineLoop(_, _, _, _, _, _)
FineLoop(sentences, i, chunks, current, n, p) ==
    IF i > Len(sentences)
    THEN IF FinalCloseKeeps(current, n, p) THEN Append(chunks, current) ELSE chunks
    ELSE LET sentence == sentences[i]
             potential == IF NonEmpty(current) THEN Join(current, 1, sentence)
                                               ELSE sentence
         IN  IF potential.c > p.max_chars /\ NonEmpty(current)
             THEN FineLoop(sentences, i + 1,
                           IF CharCloseKeeps(current, n, p)
                           THEN Append(chunks, current) ELSE chunks,
                           sentence, 1, p)
             ELSE IF n >= p.max_sentences /\ NonEmpty(current)
                  THEN FineLoop(sentences, i + 1,
                                IF SentCloseKeeps(current, n, p)
                                THEN Append(chunks, current) ELSE chunks,
                                sentence, 1, p)
                  ELSE FineLoop(sentences, i + 1, chunks, potential, n + 1, p)

create_fine_chunks(text, wl, p) ==
    IF text = <<>>
    THEN <<>>
    ELSE LET sentences == SplitSentences(text, wl, 1, 0)
         IN  IF sentences = <<>> THEN <<>>
             ELSE FineLoop(sentences, 1, <<>>, EmptyStr(wl), 0, p)

----------------------------------------------------------------------------
(* merge_paragraphs_semantically: the Token-Budgeted Merger *)

\* lines 258-277: greedy accumulation of the paragraphs, then the last chunk.
RECURSIVE MergeLoop(_, _, _, _, _, _)
MergeLoop(paragraphs, i, chunks, current, current_tokens, config) ==
    IF i > Len(paragraphs)
    THEN IF NonEmpty(current) THEN Append(chunks, current) ELSE chunks
    ELSE LET paragraph == paragraphs[i]
             paragraph_tokens == count_tokens(paragraph)
         IN  IF current_tokens + paragraph_tokens > config.max_tokens /\ NonEmpty(current)
             THEN MergeLoop(paragraphs, i + 1, Append(chunks, current),
                            paragraph, paragraph_tokens, config)
             ELSE MergeLoop(paragraphs, i + 1, chunks,
                            IF NonEmpty(current) THEN Join(current, 2, paragraph)
                                                 ELSE paragraph,
                            current_tokens + paragraph_tokens, config)

\* final_chunks[-1] = final_chunks[-1] + "\n\n" + chunk
MergeIntoLast(final_chunks, chunk) ==
    [final_chunks EXCEPT ![Len(final_chunks)] = Join(@, 2, chunk)]

\* The post-pass that keeps an undersized chunk that has no predecessor.
RECURSIVE MergePostKeepsFirst(_, _, _, _)
MergePostKeepsFirst(chunks, i, final_chunks, config) ==
    IF i > Len(chunks)
    THEN final_chunks
    ELSE LET chunk == chunks[i]
         IN  IF count_tokens(chunk) >= config.min_tokens \/ final_chunks = <<>>
             THEN MergePostKeepsFirst(chunks, i + 1, Append(final_chunks, chunk), config)
             ELSE MergePostKeepsFirst(chunks, i + 1,
                                      MergeIntoLast(final_chunks, chunk), config)

\* lines 280-287: the post-pass over the closed chunks.
RECURSIVE MergePost(_, _, _, _)
MergePost(chunks, i, final_chunks, config) ==
    IF i > Len(chunks)
    THEN final_chunks
    ELSE LET chunk == chunks[i]
         IN  IF count_tokens(chunk) >= config.min_tokens
             THEN MergePost(chunks, i + 1, Append(final_chunks, chunk), config)
             ELSE IF final_chunks # <<>>
                  THEN MergePost(chunks, i + 1, MergeIntoLast(final_chunks, chunk), config)
                  ELSE MergePost(chunks, i + 1, final_chunks, config)

merge_paragraphs_semantically(paragraphs, config) ==
    IF paragraphs = <<>>
    THEN <<>>
    ELSE MergePost(MergeLoop(paragraphs, 1, <<>>, EmptyStr(paragraphs[1].wl), 0, config),
                   1, <<>>, config)

----------------------------------------------------------------------------
(* advanced_chunk_by_structure: the coarse pipeline *)

\* line 53: the header words preprocess_text removes when alone on a line.
StopLines == {"Abstract", "Introduction", "Conclusion", "References", "Bibliography"}

\* Beside sentence lines, header lines and blank lines, a raw text has
\*   "page":       a page-number line, 'Page 7';
\*   "caps":       a line of capital letters and spaces, 'RESULTS';
\*   "caps_arxiv": capital letters followed by an arXiv identifier,
\*                 'RESULTS 2309.15025';
\*   "page_arxiv": a page number followed by an arXiv URL,
\*                 'Page 7 https://arxiv.org/abs/2309.15025'.
EmptyLine(line) == [kind |-> "blank", label |-> "", w |-> 0, id |-> line.id]

\* lines 46-58, the substitutions anchored at both ends of a line: a
\* page-number line (46), a line of capitals (50) and a line that is exactly
\* a stop word (53) are replaced by the empty string.
LineFilters(line) ==
    IF \/ line.kind \in {"page", "caps"}
       \/ line.kind = "hdr" /\ line.label \in StopLines
    THEN EmptyLine(line)
    ELSE line

\* lines 61-62: the arXiv URLs and identifiers are deleted wherever they
\* stand; the rest of the line remains.
StripArxiv(line) ==
    IF line.kind = "caps_arxiv"
    THEN [kind |-> "caps", label |-> line.label, w |-> line.w - 1, id |-> line.id]
    ELSE IF line.kind = "page_arxiv"
         THEN [kind |-> "page", label |-> line.label, w |-> line.w - 1, id |-> line.id]
         ELSE line

\* lines 78-88: a line without words is skipped.
HasWords(line) == line.kind # "blank"

\* lines 38-96, on a text of such lines: the line filters, then the removal
\* of the arXiv identifiers, then the removal of the empty lines.
preprocess_text(text) ==
    SelectSeq([i \in 1..Len(text) |-> StripArxiv(LineFilters(text[i]))], HasWords)

\* lines 131-146: a keyword of section_headers, or a line in capitals of at
\* most five words.
is_section_header(line) == line.kind \in {"hdr", "caps", "caps_arxiv"}

\* The text of one line, stripped.
LineStr(line, wl) ==
    IF line.kind = "blank" THEN EmptyStr(wl) ELSE Words(line.w, wl, <<line.id>>)

\* '\n'.join(lines)
RECURSIVE JoinLines(_, _)
JoinLines(lines, wl) ==
    IF lines = <<>> THEN EmptyStr(wl)
    ELSE IF Len(lines) = 1 THEN LineStr(lines[1], wl)
    ELSE Join(LineStr(lines[1], wl), 1, JoinLines(Tail(lines), wl))

SaveSectionAlways(sections, current_section, current_content, wl) ==
    Append(sections, [name |-> current_section,
                      content |-> JoinLines(current_content, wl)])

\* lines 202-203 and 212-213: a section is kept if it has gathered content.
SaveSection(sections, current_section, current_content, wl) ==
    IF current_content # <<>>
    THEN Append(sections, [name |-> current_section,
                           content |-> JoinLines(current_content, wl)])
    ELSE sections

\* text.strip(), on the lines of a text: without its leading and trailing
\* blank lines.
RECURSIVE StripLines(_)
StripLines(text) ==
    IF text = <<>> THEN <<>>
    ELSE IF Head(text).kind = "blank" THEN StripLines(Tail(text))
    ELSE IF text[Len(text)].kind = "blank" THEN StripLines(SubSeq(text, 1, Len(text) - 1))
    ELSE text

\* lines 194-213: walk the lines, closing a section at each header.
RECURSIVE SectionLoop(_, _, _, _, _, _)
SectionLoop(text, wl, i, sections, current_section, current_content) ==
    LET saved == SaveSection(sections, current_section, current_content, wl)
    IN  IF i > Len(text)
        THEN saved
        ELSE IF text[i].kind = "blank"
        THEN SectionLoop(text, wl, i + 1, sections, current_section, current_content)
        ELSE IF is_section_header(text[i])
             THEN SectionLoop(text, wl, i + 1, saved, text[i].label, <<>>)
             ELSE SectionLoop(text, wl, i + 1, sections, current_section,
                              Append(current_content, text[i]))

split_into_sections(text, wl) ==
    LET sections == SectionLoop(text, wl, 1, <<>>, "Unknown", <<>>)
    IN  IF sections = <<>>
        THEN <<[name |-> "Content", content |-> JoinLines(StripLines(text), wl)]>>
        ELSE sections

\* lines 232-238, on a text given as the sequence of its blocks (the parts
\* between blank lines): the stripped, non-empty blocks.  When there is none,
\* the split on single newlines finds no non-empty line either.
split_into_paragraphs(blocks) ==
    SelectSeq(blocks, NonEmpty)

\* A string that holds no blank line is a single block.
Blocks(s) == <<s>>

\* len(section_name): "Unknown" and "Content" have 7 characters, a header
\* keyword of the model is one word.
NameLen(name, wl) == IF name \in {"Unknown", "Content"} THEN 7 ELSE wl - 1

\* line 368: f"[{section_name}]\n\n{chunk}"
WithPrefix(name, chunk) ==
    [w |-> 1 + chunk.w, c |-> NameLen(name, chunk.wl) + 4 + chunk.c, wl |-> chunk.wl,
     dbl |-> chunk.dbl + 1, ids |-> chunk.ids]

\* lines 351-369: the chunks of every section, each under its label.  The body
\* of a section never starts with its own label in the texts of the model.
RECURSIVE SectionChunks(_, _, _)
SectionChunks(sections, i, config) ==
    IF i > Len(sections)
    THEN <<>>
    ELSE LET paragraphs == split_into_paragraphs(Blocks(sections[i].content))
             section_chunks == merge_paragraphs_semantically(paragraphs, config)
         IN  [k \in 1..Len(section_chunks) |->
                 WithPrefix(sections[i].name, section_chunks[k])]
             \o SectionChunks(sections, i + 1, config)

\* lines 317-318: ' '.join(prev_words[max(0, len(prev_words) - overlap_tokens):])
OverlapText(prev_chunk, overlap_tokens) ==
    IF overlap_tokens >= prev_chunk.w
    THEN [prev_chunk EXCEPT !.c = @ - prev_chunk.dbl, !.dbl = 0]
    ELSE Words(overlap_tokens, prev_chunk.wl, prev_chunk.ids)

\* The overlap taken from the chunk just built instead of the chunk received.
RECURSIVE OverlapChain(_, _, _, _)
OverlapChain(chunks, i, prev, overlap_tokens) ==
    IF i > Len(chunks)
    THEN <<>>
    ELSE LET overlapped_chunk == Join(OverlapText(prev, overlap_tokens), 2, chunks[i])
         IN  <<overlapped_chunk>>
             \o OverlapChain(chunks, i + 1, overlapped_chunk, overlap_tokens)

ApplyOverlapChained(chunks, config) ==
    IF chunks = <<>> \/ config.overlap_tokens <= 0
    THEN chunks
    ELSE <<chunks[1]>> \o OverlapChain(chunks, 2, chunks[1], config.overlap_tokens)

\* lines 302-324
apply_overlap_sliding_window(chunks, config) ==
    IF chunks = <<>> \/ config.overlap_tokens <= 0
    THEN chunks
    ELSE [i \in 1..Len(chunks) |->
             IF i = 1 THEN chunks[i]
             ELSE Join(OverlapText(chunks[i - 1], config.overlap_tokens), 2, chunks[i])]

advanced_chunk_by_structure(text, wl, config) ==
    IF text = <<>>
    THEN <<>>
    ELSE LET clean == preprocess_text(text)
             sections == split_into_sections(clean, wl)
             by_section == SectionChunks(sections, 1, config)
             all_chunks ==
                 IF by_section # <<>> THEN by_section
                 ELSE merge_paragraphs_semantically(
                          split_into_paragraphs(Blocks(JoinLines(clean, wl))), config)
         IN  IF config.overlap_tokens > 0 /\ all_chunks # <<>>
             THEN apply_overlap_sliding_window(all_chunks, config)
             ELSE all_chunks

----------------------------------------------------------------------------
(* create_coarse_chunks: the character-limit post-pass *)

\* line 548: overlap_tokens=50
COARSE_OVERLAP_TOKENS == 50

\* line 567: chunk_text_with_overlap(chunk, max_chars, 100)
COARSE_SPLIT_OVERLAP == 100

\* text[start:end].  The word count of a slice is never read by the code; it
\* is the number of words the slice touches when every word has width wl.
Slice(text, start, end) ==
    [w |-> ((end - 1) \div text.wl) - (start \div text.wl) + 1, c |-> end - start,
     wl |-> text.wl, dbl |-> 0, ids |-> text.ids]

\* lines 402-410: the loop of chunk_text_with_overlap.
RECURSIVE SplitLoop(_, _, _, _)
SplitLoop(text, start, max_length, overlap) ==
    LET end == Min(start + max_length, text.c)
        chunk == Slice(text, start, end)
    IN  IF end = text.c
        THEN <<chunk>>
        ELSE <<chunk>> \o SplitLoop(text, Max(end - overlap, 0), max_length, overlap)

chunk_text_with_overlap(text, max_length, overlap) ==
    IF ~NonEmpty(text) THEN <<>> ELSE SplitLoop(text, 0, max_length, overlap)

\* lines 557-571: the post-pass over the chunks of the structural pipeline.
RECURSIVE CoarsePost(_, _, _, _)
CoarsePost(chunks, i, final_chunks, p) ==
    IF i > Len(chunks)
    THEN final_chunks
    ELSE LET chunk == chunks[i]
             chunk_chars == chunk.c
             chunk_tokens == count_tokens(chunk)
         IN  IF /\ chunk_chars >= p.min_chars /\ chunk_chars <= p.max_chars
                /\ chunk_tokens >= p.min_tokens /\ chunk_tokens <= p.max_tokens
             THEN CoarsePost(chunks, i + 1, Append(final_chunks, chunk), p)
             ELSE IF chunk_chars > p.max_chars
                  THEN CoarsePost(chunks, i + 1,
                           final_chunks \o chunk_text_with_overlap(
                               chunk, p.max_chars, COARSE_SPLIT_OVERLAP), p)
                  ELSE IF chunk_chars < p.min_chars /\ final_chunks # <<>>
                       THEN CoarsePost(chunks, i + 1,
                                       MergeIntoLast(final_chunks, chunk), p)
                       ELSE CoarsePost(chunks, i + 1, final_chunks, p)

\* lines 545-555: the chunks of the structural pipeline, which the post-pass
\* receives.
IncomingChunks(text, wl, p) ==
    advanced_chunk_by_structure(text, wl,
        [min_tokens |-> p.min_tokens, max_tokens |-> p.max_tokens,
         overlap_tokens |-> COARSE_OVERLAP_TOKENS])

create_coarse_chunks(text, wl, p) ==
    IF text = <<>>
    THEN <<>>
    ELSE CoarsePost(IncomingChunks(text, wl, p), 1, <<>>, p)

----------------------------------------------------------------------------
(* Inputs of the chunking functions *)

MaxLines == 4

MaxWords == 3

\* The texts whose lines are drawn from the given line shapes.
TextsOver(shapes) ==
    UNION {{[i \in 1..n |-> [kind |-> t[i].kind, label |-> t[i].label,
                             w |-> t[i].w, id |-> i]] : t \in [1..n -> shapes]}
           : n \in 0..MaxLines}

Sent(n) == [kind |-> "sent", label |-> "", w |-> n]

Hdr(label) == [kind |-> "hdr", label |-> label, w |-> 1]

Blank == [kind |-> "blank", label |-> "", w |-> 0]

Page == [kind |-> "page", label |-> "Page 7", w |-> 2]

Caps(label) == [kind |-> "caps", label |-> label, w |-> 1]

CapsArxiv(label) == [kind |-> "caps_arxiv", label |-> label, w |-> 2]

PageArxiv == [kind |-> "page_arxiv", label |-> "Page 7", w |-> 3]

\* Short sentences and a header line.
FineTexts == TextsOver({Sent(n) : n \in 1..MaxWords} \cup {Hdr("Methods")})

\* Words of one or of two characters.
FineWls == {2, 3}

FineParams ==
    [min_chars : {1, 4}, max_chars : {3, 7}, min_sentences : {1, 2}, max_sentences : {1, 2}]

\* Paragraphs of 1..MaxWords+2 tokens, numbered in order.
ParagraphLists ==
    UNION {{[i \in 1..n |-> Words(t[i], 2, <<i>>)] : t \in [1..n -> 1..(MaxWords + 2)]}
           : n \in 0..MaxLines}

MergeConfigs == [min_tokens : {1, 2, 3}, max_tokens : {3, 4}]

\* Sentences of a scientific text, a header the normalizer keeps and one it
\* removes; words of 1, of 3 or of 5 characters.
CoarseTexts ==
    TextsOver({Sent(n) : n \in {40, 150, 320, 600}}
              \cup {Hdr("Methods"), Hdr("Introduction")})

CoarseWls == {2, 4, 6}

\* config.py lines 28-31 (the defaults), and a second setting.
CoarseParams ==
    {[min_chars |-> 1000, max_chars |-> 1500, min_tokens |-> 300, max_tokens |-> 512],
     [min_chars |-> 500, max_chars |-> 800, min_tokens |-> 100, max_tokens |-> 200]}

\* A chunking function is applied once, to any of its inputs.
FnInit == fn = [op |-> "none"]

CallCreateFineChunks ==
    /\ fn.op = "none"
    /\ \E text \in FineTexts, wl \in FineWls, p \in FineParams :
          fn' = [op |-> "create_fine_chunks", text |-> text, wl |-> wl, p |-> p,
                 out |-> create_fine_chunks(text, wl, p)]
    /\ UNCHANGED storeVars

CallMergeParagraphs ==
    /\ fn.op = "none"
    /\ \E paragraphs \in ParagraphLists, config \in MergeConfigs :
          fn' = [op |-> "merge_paragraphs_semantically", paragraphs |-> paragraphs,
                 config |-> config,
                 out |-> merge_paragraphs_semantically(paragraphs, config)]
    /\ UNCHANGED storeVars

\* Sentence lines, header lines and blank lines.
SectionTexts ==
    TextsOver({Sent(1), Sent(2), Hdr("Abstract"), Hdr("1. Introduction"), Blank})

CallSplitIntoSections ==
    /\ fn.op = "none"
    /\ \E text \in SectionTexts :
          fn' = [op |-> "split_into_sections", text |-> text,
                 out |-> split_into_sections(text, 2)]
    /\ UNCHANGED storeVars

\* Raw texts with the lines the normalizer removes and the lines it edits.
NormalizerTexts ==
    TextsOver({Sent(2), Page, Caps("RESULTS"), CapsArxiv("RESULTS"), PageArxiv,
               Hdr("Abstract")})

CallPreprocessText ==
    /\ fn.op = "none"
    /\ \E text \in NormalizerTexts :
          fn' = [op |-> "preprocess_text", text |-> text, out |-> preprocess_text(text)]
    /\ UNCHANGED storeVars

\* Texts with sections shorter than min_tokens, longer than max_tokens and
\* (two short lines, third setting) in between, with blank lines, a header the normalizer keeps and one it
\* removes.
StructureTexts ==
    TextsOver({Sent(40), Sent(600), Hdr("Methods"), Hdr("Introduction"), Blank})

StructureConfigs ==
    {[min_tokens |-> 300, max_tokens |-> 512, overlap_tokens |-> COARSE_OVERLAP_TOKENS],
     [min_tokens |-> 100, max_tokens |-> 200, overlap_tokens |-> 0],
     [min_tokens |-> 50, max_tokens |-> 100, overlap_tokens |-> COARSE_OVERLAP_TOKENS]}

\* lines 326-381; `sections` is the value of line 348.
CallAdvancedChunkByStructure ==
    /\ fn.op = "none"
    /\ \E text \in StructureTexts, config \in StructureConfigs :
          fn' = [op |-> "advanced_chunk_by_structure", text |-> text, config |-> config,
                 sections |-> IF text = <<>> THEN <<>>
                              ELSE split_into_sections(preprocess_text(text), 4),
                 out |-> advanced_chunk_by_structure(text, 4, config)]
    /\ UNCHANGED storeVars

\* The overlaps asked for: none, negative, shorter and longer than a chunk.
OverlapTokens == (-1)..(MaxWords + 3)

CallApplyOverlap ==
    /\ fn.op = "none"
    /\ \E chunks \in ParagraphLists, overlap_tokens \in OverlapTokens :
          fn' = [op |-> "apply_overlap_sliding_window", chunks |-> chunks,
                 overlap_tokens |-> overlap_tokens,
                 out |-> apply_overlap_sliding_window(
                             chunks, [overlap_tokens |-> overlap_tokens])]
    /\ UNCHANGED storeVars

\* The loop of chunk_text_with_overlap, one iteration at a step, on a text of
\* text_length characters; of the chunks it appends the model keeps the count.
SplitTextLengths == {0, 1, 50, 100, 101, 150, 250, 400}

SplitMaxLengths == {1, 50, 99, 100, 101, 150, 300}

\* The chunks a loop may append before the model stops following it.
MaxChunks == 6

\* lines 395-400: no chunk of an empty text; else start = 0.
CallChunkTextWithOverlap ==
    /\ fn.op = "none"
    /\ \E text_length \in SplitTextLengths, max_length \in SplitMaxLengths :
          fn' = [op |-> "chunk_text_with_overlap", text_length |-> text_length,
                 max_length |-> max_length, overlap |-> COARSE_SPLIT_OVERLAP,
                 start |-> 0, n_chunks |-> 0,
                 pc |-> IF text_length = 0 THEN "done" ELSE "loop"]
    /\ UNCHANGED storeVars

\* lines 402-410: one iteration of the while loop.
SplitStep ==
    /\ fn.op = "chunk_text_with_overlap"
    /\ fn.pc = "loop"
    /\ fn.n_chunks < MaxChunks
    /\ IF fn.start < fn.text_length
       THEN LET end == Min(fn.start + fn.max_length, fn.text_length)
            IN  fn' = [fn EXCEPT !.n_chunks = @ + 1,
                                 !.pc = IF end = fn.text_length THEN "done" ELSE "loop",
                                 !.start = IF end = fn.text_length THEN @
                                           ELSE Max(end - fn.overlap, 0)]
       ELSE fn' = [fn EXCEPT !.pc = "done"]
    /\ UNCHANGED storeVars

CallCreateCoarseChunks ==
    /\ fn.op = "none"
    /\ \E text \in CoarseTexts, wl \in CoarseWls, p \in CoarseParams :
          fn' = [op |-> "create_coarse_chunks", text |-> text, wl |-> wl, p |-> p,
                 incoming |-> IncomingChunks(text, wl, p),
                 out |-> create_coarse_chunks(text, wl, p)]
    /\ UNCHANGED storeVars

----------------------------------------------------------------------------
(* VectorStoreService: the two collections *)

\* config.py lines 22-25 and 28-31: the defaults.
FINE_CHUNK_MIN_CHARS == 300

FINE_CHUNK_MAX_CHARS == 500

FINE_CHUNK_MIN_SENTENCES == 1

FINE_CHUNK_MAX_SENTENCES == 3

COARSE_CHUNK_MIN_CHARS == 1000

COARSE_CHUNK_MAX_CHARS == 1500

COARSE_CHUNK_MIN_TOKENS == 300

COARSE_CHUNK_MAX_TOKENS == 512

MaxIngests == 2

MaxK == 1

Rep(shape, n) == [i \in 1..n |-> shape]

MkText(shapes) ==
    [i \in 1..Len(shapes) |-> [kind |-> shapes[i].kind, label |-> shapes[i].label,
                               w |-> shapes[i].w, id |-> i]]

\* The papers handed to ingest_paper_text: metadata (a title) and text.
\*   both:   fine and coarse chunks;      fine:   fine chunks only;
\*   coarse: coarse chunks only;          none:   no chunk at all;
\*   split:  a section under a header, longer than the coarse maximum;
\*   empty:  the empty text;              blank:  whitespace and nothing else.
Docs ==
    {[title |-> "empty",  wl |-> 4, text |-> <<>>],
     [title |-> "blank",  wl |-> 4, text |-> MkText(Rep(Blank, 2))],
     [title |-> "both",   wl |-> 4, text |-> MkText(Rep(Sent(40), 8))],
     [title |-> "fine",   wl |-> 4, text |-> MkText(Rep(Sent(40), 3))],
     [title |-> "coarse", wl |-> 4, text |-> MkText(Rep(Sent(20), 16))],
     [title |-> "none",   wl |-> 4, text |-> MkText(Rep(Sent(10), 1))],
     [title |-> "split",  wl |-> 6, text |-> MkText(<<Hdr("Methods")>> \o Rep(Sent(64), 5))]}

\* The query strings.
Queries == {0, 1}

\* The distance the index computes between the embeddings of a query and of a
\* stored text, in hundredths: a fixed function of the two strings.
Distance(query, text) == (text.c * (query + 1) + 37 * query) % 200

\* lines 237-244 and 255-262: the metadata of chunk i (counted from 1 here,
\* from 0 in the code) of the chunks of one pipeline.  citation_key and
\* bibtex depend on the paper metadata alone and are left out.
ChunkMetadataFromOne(paper_metadata, chunks, i, chunk_type) ==
    [title |-> paper_metadata.title, chunk_index |-> i, total_chunks |-> Len(chunks),
     chunk_length |-> chunks[i].c, chunk_type |-> chunk_type]

ChunkMetadata(paper_metadata, chunks, i, chunk_type) ==
    [title |-> paper_metadata.title, chunk_index |-> i - 1, total_chunks |-> Len(chunks),
     chunk_length |-> chunks[i].c, chunk_type |-> chunk_type]

ContentId(base, i) == i

\* line 86: str(uuid.uuid4()), the i-th identifier drawn after `base` others.
uuid4(base, i) == base + i

\* lines 91-94: {k: v for k, v in md.items() if v is not None}.  The one
\* field a caller of this model leaves null is `note`.
CleanMetadata(md) ==
    IF "note" \in DOMAIN md /\ md.note = "None"
    THEN [k \in DOMAIN md \ {"note"} |-> md[k]]
    ELSE md

\* lines 77-109.  `fault` says that the embedding or the index raises inside
\* collection.add, which also raises when the lists differ in length.  The
\* result: the return value, the entries added, the identifiers drawn.
add_texts_to_collection(texts, metadatas, base, fault) ==
    LET clean_texts == SelectSeq(texts, NonEmpty)
        n == Len(clean_texts)
        clean_metadatas == [i \in 1..Len(metadatas) |-> CleanMetadata(metadatas[i])]
    IN  IF texts = <<>> \/ clean_texts = <<>>
        THEN [ok |-> FALSE, new |-> {}, used |-> 0]
        ELSE IF fault \/ Len(clean_metadatas) # n
             THEN [ok |-> FALSE, new |-> {}, used |-> n]
             ELSE [ok |-> TRUE,
                   new |-> {[id |-> uuid4(base, i), text |-> clean_texts[i],
                             md |-> clean_metadatas[i]] : i \in 1..n},
                   used |-> n]

\* A search reads the collections and changes nothing, so the states of the
\* store reachable after a search are those reachable without it: a behaviour
\* of the model makes its searches last, in any reachable state of the store.
NoSearchYet == ret.op \notin {"search", "search_both", "suggest_citation", "stats"}

IngestReturnsOr(fine_success, coarse_success) == fine_success \/ coarse_success

IngestReturnsCoarse(fine_success, coarse_success) == coarse_success

\* line 269: return fine_success and coarse_success
IngestReturn(fine_success, coarse_success) == fine_success /\ coarse_success

\* lines 165-273
IngestPaperText ==
    /\ NoSearchYet
    /\ calls < MaxIngests
    /\ \E d \in Docs, fine_fault \in BOOLEAN, coarse_fault \in BOOLEAN :
          LET fine_chunks == create_fine_chunks(d.text, d.wl,
                  [min_chars |-> FINE_CHUNK_MIN_CHARS, max_chars |-> FINE_CHUNK_MAX_CHARS,
                   min_sentences |-> FINE_CHUNK_MIN_SENTENCES,
                   max_sentences |-> FINE_CHUNK_MAX_SENTENCES])
              coarse_chunks == create_coarse_chunks(d.text, d.wl,
                  [min_chars |-> COARSE_CHUNK_MIN_CHARS, max_chars |-> COARSE_CHUNK_MAX_CHARS,
                   min_tokens |-> COARSE_CHUNK_MIN_TOKENS,
                   max_tokens |-> COARSE_CHUNK_MAX_TOKENS])
              fine_chunk_metadatas ==
                  [i \in 1..Len(fine_chunks) |-> ChunkMetadata(d, fine_chunks, i, "fine")]
              coarse_chunk_metadatas ==
                  [i \in 1..Len(coarse_chunks) |->
                      ChunkMetadata(d, coarse_chunks, i, "coarse")]
              fine_add == add_texts_to_collection(fine_chunks, fine_chunk_metadatas,
                                                  nextId, fine_fault)
              coarse_add == add_texts_to_collection(coarse_chunks, coarse_chunk_metadatas,
                                                    nextId + fine_add.used, coarse_fault)
              nothing == fine_chunks = <<>> /\ coarse_chunks = <<>>
              ok == IF nothing THEN FALSE ELSE IngestReturn(fine_add.ok, coarse_add.ok)
          IN  /\ fine' = IF nothing THEN fine ELSE fine \cup fine_add.new
              /\ coarse' = IF nothing THEN coarse ELSE coarse \cup coarse_add.new
              /\ nextId' = IF nothing THEN nextId
                           ELSE nextId + fine_add.used + coarse_add.used
              /\ ret' = [op |-> "ingest", doc |-> d.title, ok |-> ok,
                         no_text |-> \A i \in DOMAIN d.text : d.text[i].kind = "blank",
                         text_chars |-> JoinLines(d.text, d.wl).c,
                         again |-> d.title \in ingested,
                         repeat |-> d.title \in succeeded,
                         fine_fault |-> fine_fault, coarse_fault |-> coarse_fault,
                         n_fine |-> Len(fine_chunks), n_coarse |-> Len(coarse_chunks),
                         fine_success |-> ~nothing /\ fine_add.ok,
                         coarse_success |-> ~nothing /\ coarse_add.ok,
                         fine_before |-> Cardinality(fine),
                         coarse_before |-> Cardinality(coarse)]
              /\ ingested' = ingested \cup {d.title}
              /\ succeeded' = IF ok THEN succeeded \cup {d.title} ELSE succeeded
    /\ calls' = calls + 1
    /\ UNCHANGED fn

\* lines 319 and 324: collection.get()['ids'], the identifiers stored in a
\* collection.
IdsOf(collection) == {e.id : e \in collection}

DeleteFirstId(collection, ids) ==
    {e \in collection : \E i \in ids : i < e.id}

\* lines 321 and 326: collection.delete(ids=ids)
DeleteIds(collection, ids) == {e \in collection : e.id \notin ids}

\* lines 315-331.  `fault` names the collection whose get or delete raises.
DeleteAllChunks ==
    /\ NoSearchYet
    /\ \E fault \in {"none", "fine", "coarse"} :
          /\ fine' = IF fault = "fine" THEN fine ELSE DeleteIds(fine, IdsOf(fine))
          /\ coarse' = IF fault = "none" THEN DeleteIds(coarse, IdsOf(coarse)) ELSE coarse
          /\ ret' = [op |-> "delete_all", ok |-> fault = "none",
                     fine_before |-> Cardinality(fine),
                     coarse_before |-> Cardinality(coarse)]
    /\ UNCHANGED <<nextId, ingested, succeeded, calls, fn>>

\* The lists of texts handed to add_texts_to_collection: at most MaxTexts
\* strings, each the empty string or a text of five words.
MaxTexts == 2

TextShapes == {0, 5}

TextLists ==
    UNION {{[i \in 1..n |-> Words(shape[i], 4, <<>>)] : shape \in [1..n -> TextShapes]}
           : n \in 0..MaxTexts}

\* The metadatas argument for a list of texts: None (the empty option), or
\* one dictionary per text, which names the position it was written for and
\* has a `note` that is set in every dictionary or null in every dictionary.
MetadataArgs(texts) ==
    {<<>>} \cup {<<[i \in 1..Len(texts) |->
                      [source |-> "caller", pos |-> i, note |-> note]]>>
                 : note \in {"None", "set"}}

\* lines 88-89: a missing metadatas argument becomes one {"source": "unknown"}
\* per non-empty text.
MetadatasOrDefault(metadatas, texts) ==
    IF metadatas = <<>>
    THEN [i \in 1..Len(SelectSeq(texts, NonEmpty)) |-> [source |-> "unknown"]]
    ELSE metadatas[1]

----------------------------------------------------------------------------
(* ingest_paper_text and delete_all_chunks called by two clients at once:   *)
(* each call of the index (collection.add, collection.get,                  *)
(* collection.delete) is one step, and the steps of the two calls           *)
(* interleave in every order.  fn holds the position and the local          *)
(* variables of the two calls.                                              *)

\* lines 209-215
FineChunksOf(d) ==
    create_fine_chunks(d.text, d.wl,
        [min_chars |-> FINE_CHUNK_MIN_CHARS, max_chars |-> FINE_CHUNK_MAX_CHARS,
         min_sentences |-> FINE_CHUNK_MIN_SENTENCES,
         max_sentences |-> FINE_CHUNK_MAX_SENTENCES])

\* lines 218-224
CoarseChunksOf(d) ==
    create_coarse_chunks(d.text, d.wl,
        [min_chars |-> COARSE_CHUNK_MIN_CHARS, max_chars |-> COARSE_CHUNK_MAX_CHARS,
         min_tokens |-> COARSE_CHUNK_MIN_TOKENS, max_tokens |-> COARSE_CHUNK_MAX_TOKENS])

\* lines 230-245 and 248-263
MetadatasOf(d, chunks, chunk_type) ==
    [i \in 1..Len(chunks) |-> ChunkMetadata(d, chunks, i, chunk_type)]

DocTitled(title) == CHOOSE d \in Docs : d.title = title

\* Both calls are made.  Lines 209-227 of ingest_paper_text touch no shared
\* state: with no chunk at all the call returns False before any write.
StartRace ==
    /\ fn.op = "none"
    /\ NoSearchYet
    /\ calls < MaxIngests
    /\ \E d \in Docs :
          LET nothing == FineChunksOf(d) = <<>> /\ CoarseChunksOf(d) = <<>>
          IN  fn' = [op |-> "race", doc |-> d.title,
                     ingest_pc |-> IF nothing THEN "done" ELSE "add_fine",
                     fine_success |-> FALSE, coarse_success |-> FALSE,
                     ingest_ok |-> FALSE, fine_ids |-> {}, coarse_ids |-> {},
                     delete_pc |-> "get_fine", ids |-> {}, delete_ok |-> FALSE]
    /\ calls' = calls + 1
    /\ UNCHANGED <<fine, coarse, nextId, ret, ingested, succeeded>>

\* line 266
RaceAddFine ==
    /\ fn.op = "race" /\ fn.ingest_pc = "add_fine"
    /\ \E fault \in BOOLEAN :
          LET d == DocTitled(fn.doc)
              added == add_texts_to_collection(
                           FineChunksOf(d), MetadatasOf(d, FineChunksOf(d), "fine"),
                           nextId, fault)
          IN  /\ fine' = fine \cup added.new
              /\ nextId' = nextId + added.used
              /\ fn' = [fn EXCEPT !.ingest_pc = "add_coarse", !.fine_success = added.ok,
                                  !.fine_ids = IdsOf(added.new)]
    /\ UNCHANGED <<coarse, ret, ingested, succeeded, calls>>

\* lines 267-269
RaceAddCoarse ==
    /\ fn.op = "race" /\ fn.ingest_pc = "add_coarse"
    /\ \E fault \in BOOLEAN :
          LET d == DocTitled(fn.doc)
              added == add_texts_to_collection(
                           CoarseChunksOf(d), MetadatasOf(d, CoarseChunksOf(d), "coarse"),
                           nextId, fault)
          IN  /\ coarse' = coarse \cup added.new
              /\ nextId' = nextId + added.used
              /\ fn' = [fn EXCEPT !.ingest_pc = "done", !.coarse_success = added.ok,
                                  !.coarse_ids = IdsOf(added.new),
                                  !.ingest_ok = IngestReturn(fn.fine_success, added.ok)]
    /\ UNCHANGED <<fine, ret, ingested, succeeded, calls>>

\* lines 319 and 324: collection.get(); lines 329-331 when it raises.
RaceGet ==
    /\ fn.op = "race" /\ fn.delete_pc \in {"get_fine", "get_coarse"}
    /\ \E fault \in BOOLEAN :
          fn' = IF fault
                THEN [fn EXCEPT !.delete_pc = "done"]
                ELSE IF fn.delete_pc = "get_fine"
                     THEN [fn EXCEPT !.delete_pc = "delete_fine", !.ids = IdsOf(fine)]
                     ELSE [fn EXCEPT !.delete_pc = "delete_coarse", !.ids = IdsOf(coarse)]
    /\ UNCHANGED storeVars

\* lines 320-321: the identifiers read are deleted from the fine collection.
RaceDeleteFine ==
    /\ fn.op = "race" /\ fn.delete_pc = "delete_fine"
    /\ \E fault \in BOOLEAN :
          IF fault /\ fn.ids # {}
          THEN fn' = [fn EXCEPT !.delete_pc = "done"] /\ fine' = fine
          ELSE /\ fn' = [fn EXCEPT !.delete_pc = "get_coarse"]
               /\ fine' = DeleteIds(fine, fn.ids)
    /\ UNCHANGED <<coarse, nextId, ret, ingested, succeeded, calls>>

\* lines 325-328: the identifiers read are deleted from the coarse collection.
RaceDeleteCoarse ==
    /\ fn.op = "race" /\ fn.delete_pc = "delete_coarse"
    /\ \E fault \in BOOLEAN :
          IF fault /\ fn.ids # {}
          THEN fn' = [fn EXCEPT !.delete_pc = "done"] /\ coarse' = coarse
          ELSE /\ fn' = [fn EXCEPT !.delete_pc = "done", !.delete_ok = TRUE]
               /\ coarse' = DeleteIds(coarse, fn.ids)
    /\ UNCHANGED <<fine, nextId, ret, ingested, succeeded, calls>>

----------------------------------------------------------------------------

WritesFineAlways(collection_name) == TRUE

\* line 97: the fine collection when the name is "fine", the coarse
\* collection otherwise.
WritesFine(collection_name) == collection_name = "fine"

\* lines 74-109, called directly (add_texts, line 336, is the call with
\* collection_name "fine").
AddTextsToCollection ==
    /\ NoSearchYet
    /\ calls < MaxIngests
    /\ \E texts \in TextLists, collection_name \in {"fine", "coarse"},
          fault \in BOOLEAN :
          \E metadatas \in MetadataArgs(texts) :
             LET added == add_texts_to_collection(
                              texts, MetadatasOrDefault(metadatas, texts), nextId, fault)
             IN  /\ fine' = IF WritesFine(collection_name) THEN fine \cup added.new
                            ELSE fine
                 /\ coarse' = IF WritesFine(collection_name) THEN coarse
                              ELSE coarse \cup added.new
                 /\ nextId' = nextId + added.used
                 /\ ret' = [op |-> "add", ok |-> added.ok, texts |-> texts,
                            metadatas |-> metadatas, collection |-> collection_name,
                            fault |-> fault]
    /\ calls' = calls + 1
    /\ UNCHANGED <<ingested, succeeded, fn>>

\* lines 298-313: the counts of the two collections and their sum.
get_collection_stats ==
    [fine_chunks_count |-> Cardinality(fine), coarse_chunks_count |-> Cardinality(coarse),
     total_documents |-> Cardinality(fine) + Cardinality(coarse)]

\* lines 298-313.  `fault` says that a count raises: the except clause of
\* lines 311-313 returns the empty dictionary.
GetCollectionStats ==
    /\ NoSearchYet
    /\ \E fault \in BOOLEAN :
          ret' = [op |-> "stats", ok |-> ~fault, after |-> ret,
                  stats |-> IF fault THEN <<>> ELSE <<get_collection_stats>>]
    /\ UNCHANGED <<fine, coarse, nextId, ingested, succeeded, calls, fn>>

\* The n nearest entries of a collection, nearest first; entries at the same
\* distance come in any order.
RECURSIVE Nearest(_, _, _)
Nearest(collection, query, n) ==
    IF n = 0 \/ collection = {}
    THEN {<<>>}
    ELSE UNION {{<<e>> \o rest : rest \in Nearest(collection \ {e}, query, n - 1)}
                : e \in {x \in collection :
                           \A y \in collection :
                              Distance(query, x.text) <= Distance(query, y.text)}}

\* lines 127-141: one formatted result per returned entry.
FormatResults(found, query, collection_name) ==
    [i \in 1..Len(found) |->
        [text |-> found[i].text, metadata |-> found[i].md,
         distance |-> Distance(query, found[i].text),
         similarity_score |-> 100 - Distance(query, found[i].text),
         rank |-> i, collection |-> collection_name]]

\* lines 113-147: what search_collection returns when the embedding or the
\* index raises (`fault`: the except clause of lines 145-147 returns the empty
\* list) and when they do not.
SearchOutcomes(collection, query, k, collection_name, fault) ==
    IF fault
    THEN {<<>>}
    ELSE {FormatResults(found, query, collection_name)
          : found \in Nearest(collection, query, k)}

\* The values search_collection can return.
search_collection(collection, query, k, collection_name) ==
    UNION {SearchOutcomes(collection, query, k, collection_name, fault)
           : fault \in BOOLEAN}

CollectionAlwaysFine(collection_name) == fine

\* line 117: the collection of that name.
CollectionNamed(collection_name) ==
    IF collection_name = "fine" THEN fine ELSE coarse

SearchCollection ==
    /\ NoSearchYet
    /\ \E query \in Queries, k \in 0..MaxK, collection_name \in {"fine", "coarse"} :
          \E results \in search_collection(CollectionNamed(collection_name),
                                            query, k, collection_name) :
             ret' = [op |-> "search", query |-> query, k |-> k,
                     collection |-> collection_name, results |-> results]
    /\ UNCHANGED <<fine, coarse, nextId, ingested, succeeded, calls, fn>>

\* Insert x behind every element whose score is at least x's.
RECURSIVE InsertByScore(_, _)
InsertByScore(sorted, x) ==
    IF sorted = <<>> THEN <<x>>
    ELSE IF Head(sorted).similarity_score >= x.similarity_score
         THEN <<Head(sorted)>> \o InsertByScore(Tail(sorted), x)
         ELSE <<x>> \o sorted

Unsorted(results) == results

\* line 157: all_results.sort(key=similarity_score, reverse=True), a stable sort.
RECURSIVE SortBySimilarity(_)
SortBySimilarity(results) ==
    IF results = <<>> THEN <<>>
    ELSE InsertByScore(SortBySimilarity(SubSeq(results, 1, Len(results) - 1)),
                       results[Len(results)])

\* lines 149-163
SearchBothCollections ==
    /\ NoSearchYet
    /\ \E query \in Queries, k_fine \in 0..MaxK, k_coarse \in 0..MaxK :
          \E fine_results \in search_collection(fine, query, k_fine, "fine"),
             coarse_results \in search_collection(coarse, query, k_coarse, "coarse") :
             ret' = [op |-> "search_both", query |-> query, k_fine |-> k_fine,
                     k_coarse |-> k_coarse,
                     results |-> SortBySimilarity(fine_results \o coarse_results)]
    /\ UNCHANGED <<fine, coarse, nextId, ingested, succeeded, calls, fn>>

----------------------------------------------------------------------------
(* suggest_citation: the nearest fine chunk as a citation *)

\* routes.py line 207: k=3
SUGGEST_K == 3

\* routes.py line 222: the threshold 0.8, in hundredths.
SUGGEST_THRESHOLD == 80

\* routes.py lines 227-229: the snippet's length limit.
SNIPPET_LIMIT == 300

\* routes.py line 231: a space beyond this position is a word boundary to cut at.
SNIPPET_BREAK == 250

\* routes.py line 232: len("...")
ELLIPSIS_LEN == 3

\* A text for the snippet: its length and the positions (from 0) of its spaces.
\* A text made of words of the given lengths, a single space between them.
RECURSIVE SpacesOf(_, _, _)
SpacesOf(word_lens, i, at) ==
    IF i >= Len(word_lens)
    THEN {}
    ELSE {at + word_lens[i]} \cup SpacesOf(word_lens, i + 1, at + word_lens[i] + 1)

RECURSIVE LenOf(_)
LenOf(word_lens) ==
    IF word_lens = <<>> THEN 0
    ELSE IF Len(word_lens) = 1 THEN word_lens[1]
    ELSE word_lens[1] + 1 + LenOf(Tail(word_lens))

TextOfWords(word_lens) ==
    [len |-> LenOf(word_lens), spaces |-> SpacesOf(word_lens, 1, 0)]

\* The text of a stored fine chunk: words of one width; the separators of a
\* fine chunk are spaces but for the newline after a header word.
TextOfChunk(chunk) ==
    [len |-> chunk.c, spaces |-> {k * chunk.wl - 1 : k \in 1..(chunk.w - 1)}]

\* text[:limit].rfind(' ')
RFindSpace(text, limit) ==
    LET found == {q \in text.spaces : q < limit}
    IN  IF found = {} THEN -1
        ELSE CHOOSE q \in found : \A r \in found : r <= q

\* routes.py line 231: if last_space > 250
BreaksAt(last_space) == last_space > SNIPPET_BREAK

\* routes.py lines 226-236: the snippet of a matched text, as the number of
\* characters kept of the text, whether "..." follows them, and its length.
MatchSnippet(text) ==
    IF text.len > SNIPPET_LIMIT
    THEN LET last_space == RFindSpace(text, SNIPPET_LIMIT)
         IN  IF BreaksAt(last_space)
             THEN [kept |-> last_space, ellipsis |-> TRUE,
                   len |-> last_space + ELLIPSIS_LEN]
             ELSE [kept |-> SNIPPET_LIMIT, ellipsis |-> TRUE,
                   len |-> SNIPPET_LIMIT + ELLIPSIS_LEN]
    ELSE [kept |-> text.len, ellipsis |-> FALSE, len |-> text.len]

\* routes.py line 217: max(results, key=similarity_score), the first of the
\* results of the highest score.
BestMatch(results) ==
    LET top == CHOOSE i \in DOMAIN results :
                  /\ \A j \in DOMAIN results :
                        results[j].similarity_score <= results[i].similarity_score
                  /\ \A j \in 1..(i - 1) :
                        results[j].similarity_score < results[i].similarity_score
    IN  results[top]

AnyScore(top_score) == TRUE

\* routes.py line 222: if top_score >= 0.8
MeetsThreshold(top_score) == top_score >= SUGGEST_THRESHOLD

\* routes.py lines 209-256: the response to the results of the search.  paper
\* is the empty sequence for None, else the sequence of the one paper_info.
CitationResponse(results) ==
    IF results = <<>>
    THEN [status |-> 200, match |-> FALSE, score |-> 0, paper |-> <<>>]
    ELSE LET best_match == BestMatch(results)
             top_score == best_match.similarity_score
         IN  IF MeetsThreshold(top_score)
             THEN [status |-> 200, match |-> TRUE, score |-> top_score,
                   paper |-> <<[title |-> best_match.metadata.title,
                                match_snippet |->
                                    MatchSnippet(TextOfChunk(best_match.text))]>>]
             ELSE [status |-> 200, match |-> FALSE, score |-> top_score,
                   paper |-> <<>>]

\* The lengths of the words of the texts a snippet is taken of.
SnippetWordLens == {49, 50, 60, 249, 250, 251, 299, 301}

MaxSnippetWords == 3

SnippetTexts ==
    UNION {[1..n -> SnippetWordLens] : n \in 1..MaxSnippetWords}

\* routes.py lines 226-236, applied once to a matched text.
CallMatchSnippet ==
    /\ fn.op = "none"
    /\ \E word_lens \in SnippetTexts :
          fn' = [op |-> "match_snippet", word_lens |-> word_lens,
                 text |-> TextOfWords(word_lens),
                 out |-> MatchSnippet(TextOfWords(word_lens))]
    /\ UNCHANGED storeVars

\* routes.py lines 199-261.  search_collection returns, whatever happens in it
\* (vector_store_service.py lines 145-147), so the except clause of lines
\* 258-260, the one place that answers 500, is not entered on its account.
SuggestCitation ==
    /\ NoSearchYet
    /\ \E query \in Queries, fault \in BOOLEAN :
          \E results \in SearchOutcomes(CollectionNamed("fine"), query, SUGGEST_K,
                                        "fine", fault) :
             ret' = [op |-> "suggest_citation", query |-> query, fault |-> fault,
                     results |-> results, response |-> CitationResponse(results)]
    /\ UNCHANGED <<fine, coarse, nextId, ingested, succeeded, calls, fn>>

----------------------------------------------------------------------------
(* ChatSummaryService (rag/src/services/chat_summary_service.py) and the    *)
(* route POST /chats/{chat_id}/summary (rag/src/api/routes.py).  One chat   *)
(* row; fn holds its stored summary and the queue of background tasks.      *)
(* A text is a sequence of parts, each a message verbatim or a summary      *)
(* written by the LLM, with the messages it accounts for.                   *)

MaxUpdates == 3

Messages == {"m1", "m2"}

Verbatim(message) == <<[from |-> "message", of |-> {message}]>>

\* The messages a text accounts for.
MessagesIn(text) == UNION {text[i].of : i \in DOMAIN text}

\* lines 48-49: the prompt built from the parameters old_summary and
\* new_message, and the summary an LLM that follows it answers with.
LlmSummary(old_summary, new_message) ==
    <<[from |-> "llm", of |-> MessagesIn(old_summary) \cup MessagesIn(new_message)]>>

\* lines 54 and 60: f"{old_summary} {new_message}".strip()
Concatenated(old_summary, new_message) == old_summary \o new_message

\* line 29: add_task(_update_summary_llm, chat_id, old_summary, new_message)
\* calls the function of line 37 with these three values in its first three
\* positions, session, chat and old_summary; new_message and chat_id keep
\* their defaults, "" and None.
BackgroundCall(chat_id, old_summary, new_message) ==
    [session |-> "int", chat |-> "str", old_summary |-> new_message,
     new_message |-> <<>>, chat_id |-> "None"]

\* line 32: _update_summary_llm(session, chat, old_summary, new_message)
InlineCall(old_summary, new_message) ==
    [session |-> "AsyncSession", chat |-> "ChatSummary", old_summary |-> old_summary,
     new_message |-> new_message, chat_id |-> "None"]

\* lines 37-62, for the types of the arguments received and what call_llm
\* does: the summary written to the row, as a sequence of at most one text.
\* Lines 39-46 fetch a session and the row when session is None and a chat_id
\* is given; lines 53 and 59 write only to an object that is true and has a
\* summary attribute.
update_summary_llm(params, llm) ==
    LET fetched == params.session = "None" /\ params.chat_id # "None"
        chat == IF fetched THEN "ChatSummary" ELSE params.chat
        session == IF fetched THEN "AsyncSession" ELSE params.session
    IN  IF chat # "ChatSummary" \/ session # "AsyncSession"
        THEN <<>>
        ELSE IF llm = "summary"
             THEN <<LlmSummary(params.old_summary, params.new_message)>>
             ELSE <<Concatenated(params.old_summary, params.new_message)>>

\* What call_llm does: it returns a summary, returns nothing, or raises.
LlmOutcomes == {"summary", "empty", "raises"}

\* lines 10-15: the row is created, with an empty or a given summary.
CreateSummary ==
    /\ fn.op = "none"
    /\ \E summary \in {<<>>, Verbatim("m0")} :
          fn' = [op |-> "chat", summary |-> summary, tasks |-> <<>>, updates |-> 0,
                 ran |-> 0]
    /\ UNCHANGED storeVars

\* routes.py lines 527-535 and update_summary lines 25-31: the route passes
\* its BackgroundTasks, so the task is scheduled and the row returned as is.
UpdateChatSummary ==
    /\ fn.op = "chat" /\ fn.updates < MaxUpdates
    /\ \E new_message \in Messages :
          fn' = [fn EXCEPT
                   !.tasks = Append(@, [for |-> new_message,
                                        params |-> BackgroundCall(
                                            1, fn.summary, Verbatim(new_message))]),
                   !.updates = @ + 1]
    /\ UNCHANGED storeVars

\* update_summary lines 25-27 and 32-34, called without background tasks.
UpdateSummaryInline ==
    /\ fn.op = "chat" /\ fn.updates < MaxUpdates
    /\ \E new_message \in Messages, llm \in LlmOutcomes :
          LET written == update_summary_llm(
                             InlineCall(fn.summary, Verbatim(new_message)), llm)
          IN  fn' = [fn EXCEPT
                       !.summary = IF written = <<>> THEN @ ELSE written[1],
                       !.updates = @ + 1]
    /\ UNCHANGED storeVars

\* The server runs the first scheduled task once the response is sent.
RunBackgroundTask ==
    /\ fn.op = "chat" /\ fn.tasks # <<>>
    /\ \E llm \in LlmOutcomes :
          LET written == update_summary_llm(Head(fn.tasks).params, llm)
          IN  fn' = [fn EXCEPT
                       !.summary = IF written = <<>> THEN @ ELSE written[1],
                       !.tasks = Tail(@),
                       !.ran = @ + 1]
    /\ UNCHANGED storeVars

----------------------------------------------------------------------------
(* The claims *)

Count(collection) == Cardinality(collection)

\* C1: ingest_paper_text returns success only if both collection writes
\* returned success, and right after a successful call both collections hold
\* strictly more entries than before it.
InvC1 ==
    (ret.op = "ingest" /\ ret.ok) =>
        /\ ret.fine_success /\ ret.coarse_success
        /\ Count(fine) > ret.fine_before
        /\ Count(coarse) > ret.coarse_before

WitC1 == ret.op = "ingest" /\ ret.ok /\ ret.again

\* C2: when exactly one of the two writes of an ingest succeeds (the other
\* failed in the index, or had no chunk to write), the call returns failure,
\* the successful collection keeps the chunks written (it grows by their
\* number) and the other collection is unchanged; a failed fine write does not
\* stop the coarse write.
PropC2 ==
    [][(ret'.op = "ingest" /\ ret'.fine_success # ret'.coarse_success) =>
          /\ ~ret'.ok
          /\ IF ret'.fine_success
             THEN /\ fine \subseteq fine'
                  /\ Count(fine') = Count(fine) + ret'.n_fine
                  /\ ret'.n_fine > 0
                  /\ coarse' = coarse
             ELSE /\ coarse \subseteq coarse'
                  /\ Count(coarse') = Count(coarse) + ret'.n_coarse
                  /\ ret'.n_coarse > 0
                  /\ fine' = fine]_vars

WitC2 ==
    /\ ret.op = "ingest" /\ ~ret.fine_success /\ ret.coarse_success
    /\ ret.n_fine > 0 /\ ret.fine_fault
    /\ Count(coarse) > ret.coarse_before

\* The entries one add call wrote: it draws consecutive identifiers, so an
\* entry's identifier less its chunk_index names the call.
BatchOf(collection, e) ==
    {x \in collection : x.id - x.md.chunk_index = e.id - e.md.chunk_index}

\* C3 (amended): in every reachable state, the chunks that one ingest call
\* wrote to one collection carry the chunk_index values 0..n-1 without
\* repeats, the same title and chunk_type, and total_chunks = n.
InvC3 ==
    \A collection \in {fine, coarse} : \A e \in collection :
        LET batch == BatchOf(collection, e)
            n == Cardinality(batch)
        IN  /\ {x.md.chunk_index : x \in batch} = 0..(n - 1)
            /\ \A x \in batch : /\ x.md.total_chunks = n
                                /\ x.md.title = e.md.title
                                /\ x.md.chunk_type = e.md.chunk_type

\* A document ingested twice: two stored fine chunks of one title and index.
WitC3 ==
    \E e1 \in fine, e2 \in fine :
        /\ e1.id # e2.id
        /\ e1.md.title = e2.md.title
        /\ e1.md.chunk_index = e2.md.chunk_index

\* C3 as claimed: per document (title) and chunk_type, the stored chunks carry
\* the chunk_index values 0..n-1 without repeats and total_chunks = n.
CexC3 ==
    \A collection \in {fine, coarse} : \A e \in collection :
        LET siblings == {x \in collection : x.md.title = e.md.title}
            n == Cardinality(siblings)
        IN  /\ {x.md.chunk_index : x \in siblings} = 0..(n - 1)
            /\ \A x \in siblings : x.md.total_chunks = n

\* C4 (amended): an ingest of a document whose earlier ingest returned
\* success, with both index writes accepted, returns success and strictly
\* increases both collections' counts.
InvC4 ==
    (ret.op = "ingest" /\ ret.repeat /\ ~ret.fine_fault /\ ~ret.coarse_fault) =>
        /\ ret.ok
        /\ Count(fine) > ret.fine_before
        /\ Count(coarse) > ret.coarse_before

WitC4 ==
    /\ ret.op = "ingest" /\ ret.repeat /\ ~ret.fine_fault /\ ~ret.coarse_fault
    /\ ret.ok /\ ret.fine_before > 0 /\ ret.coarse_before > 0

\* C4 as claimed: every ingest of a document that was ingested before returns
\* success and strictly increases both counts.
CexC4 ==
    (ret.op = "ingest" /\ ret.again) =>
        /\ ret.ok
        /\ Count(fine) > ret.fine_before
        /\ Count(coarse) > ret.coarse_before

\* C5: with min_tokens <= max_tokens, every chunk the merger returns, except
\* possibly the first, has a token count within [min_tokens, max_tokens].
CexC5 ==
    (/\ fn.op = "merge_paragraphs_semantically"
     /\ fn.config.min_tokens <= fn.config.max_tokens) =>
        \A i \in 2..Len(fn.out) :
            /\ count_tokens(fn.out[i]) >= fn.config.min_tokens
            /\ count_tokens(fn.out[i]) <= fn.config.max_tokens

\* C6: the merger's post-pass never discards an undersized chunk: the output
\* holds every input paragraph, in order.
CexC6 ==
    fn.op = "merge_paragraphs_semantically" =>
        Flatten(fn.out) = [i \in 1..Len(fn.paragraphs) |-> i]

\* C7 (amended): when min_sentences <= max_sentences, no chunk returned by
\* create_fine_chunks has fewer than min_sentences sentences or fewer than
\* min_chars characters.
InvC7 ==
    (fn.op = "create_fine_chunks" /\ fn.p.min_sentences <= fn.p.max_sentences) =>
        \A i \in 1..Len(fn.out) :
            /\ Len(fn.out[i].ids) >= fn.p.min_sentences
            /\ fn.out[i].c >= fn.p.min_chars

\* Two or more chunks returned under a minimum of two sentences and of four
\* characters.
WitC7 ==
    /\ fn.op = "create_fine_chunks"
    /\ fn.p.min_sentences = 2 /\ fn.p.max_sentences = 2 /\ fn.p.min_chars = 4
    /\ Len(fn.out) >= 2

\* C7 as claimed: for every parameter setting, no returned chunk has fewer
\* than min_sentences sentences or fewer than min_chars characters.
CexC7 ==
    fn.op = "create_fine_chunks" =>
        \A i \in 1..Len(fn.out) :
            /\ Len(fn.out[i].ids) >= fn.p.min_sentences
            /\ fn.out[i].c >= fn.p.min_chars

\* C8: every chunk returned by create_fine_chunks has at most max_sentences
\* sentences and at most max_chars characters.
CexC8 ==
    fn.op = "create_fine_chunks" =>
        \A i \in 1..Len(fn.out) :
            /\ Len(fn.out[i].ids) <= fn.p.max_sentences
            /\ fn.out[i].c <= fn.p.max_chars

\* C9: no chunk returned by create_coarse_chunks is shorter than min_chars.
CexC9 ==
    fn.op = "create_coarse_chunks" =>
        \A i \in 1..Len(fn.out) : fn.out[i].c >= fn.p.min_chars

Occurrences(seq, x) == Cardinality({i \in DOMAIN seq : seq[i] = x})

SameElements(s, t) ==
    /\ Len(s) = Len(t)
    /\ \A i \in DOMAIN s : Occurrences(s, s[i]) = Occurrences(t, s[i])

\* C10: what search_both_collections returns is the results of the fine
\* search for k_fine and of the coarse search for k_coarse, all of them and
\* nothing else: at most k_fine + k_coarse results, each tagged with the
\* collection that holds it, in non-increasing order of similarity_score.
InvC10 ==
    ret.op = "search_both" =>
        /\ Len(ret.results) <= ret.k_fine + ret.k_coarse
        /\ \A i \in 1..(Len(ret.results) - 1) :
              ret.results[i].similarity_score >= ret.results[i + 1].similarity_score
        /\ \E f \in search_collection(fine, ret.query, ret.k_fine, "fine"),
              c \in search_collection(coarse, ret.query, ret.k_coarse, "coarse") :
              SameElements(ret.results, f \o c)
        /\ \A i \in DOMAIN ret.results :
              LET r == ret.results[i]
              IN  \E e \in (IF r.collection = "fine" THEN fine ELSE coarse) :
                     /\ r.collection = e.md.chunk_type
                     /\ r.text = e.text /\ r.metadata = e.md

\* A coarse result ranked above a fine one.
WitC10 ==
    /\ ret.op = "search_both"
    /\ Len(ret.results) = 2
    /\ ret.results[1].collection = "coarse"
    /\ ret.results[2].collection = "fine"
    /\ ret.results[1].similarity_score > ret.results[2].similarity_score

\* C11: a search of a collection that holds no chunk returns the empty
\* result sequence, and leaves both collections as they were.
PropC11 ==
    [][(ret'.op = "search" /\ (IF ret'.collection = "fine" THEN fine ELSE coarse) = {}) =>
          /\ ret'.results = <<>>
          /\ fine' = fine
          /\ coarse' = coarse]_vars

\* A search for one fine chunk while only the coarse collection holds chunks.
WitC11 ==
    /\ ret.op = "search" /\ ret.collection = "fine" /\ ret.k > 0
    /\ fine = {} /\ coarse # {}
    /\ ret.results = <<>>

\* C12: when the index or the embedding fails during the fine search of
\* suggest_citation, the answer is an error (status 500), and so differs from
\* the answer given when the search finds nothing.
CexC12 ==
    (ret.op = "suggest_citation" /\ ret.fault) =>
        /\ ret.response.status = 500
        /\ ret.response # [status |-> 200, match |-> FALSE, score |-> 0, paper |-> <<>>]

MaxScore(results) ==
    CHOOSE m \in {results[i].similarity_score : i \in DOMAIN results} :
        \A i \in DOMAIN results : results[i].similarity_score <= m

\* C13: suggest_citation answers match=true exactly when the search for the
\* three nearest fine chunks returned a result and the highest
\* similarity_score among the results is at least 0.8; the score it answers is
\* that highest score (0.0 without results); paper is null exactly when
\* match=false, and otherwise carries the metadata of a result of the highest
\* score.
InvC13 ==
    ret.op = "suggest_citation" =>
        LET results == ret.results
            response == ret.response
        IN  /\ Len(results) <= SUGGEST_K
            /\ response.match <=>
                  (results # <<>> /\ MaxScore(results) >= SUGGEST_THRESHOLD)
            /\ response.score = IF results = <<>> THEN 0 ELSE MaxScore(results)
            /\ (response.paper = <<>>) <=> ~response.match
            /\ response.match =>
                  \E i \in DOMAIN results :
                     /\ results[i].similarity_score = MaxScore(results)
                     /\ response.paper[1].title = results[i].metadata.title

\* A match among three results.
WitC13 ==
    /\ ret.op = "suggest_citation"
    /\ Len(ret.results) = SUGGEST_K
    /\ ret.response.match
    /\ ret.response.score >= SUGGEST_THRESHOLD

\* C14: the snippet of a matched text has at most 300 characters, the
\* ellipsis marker counted.
CexC14 ==
    fn.op = "match_snippet" => fn.out.len <= SNIPPET_LIMIT

\* C15: of a text longer than 300 characters the snippet keeps the characters
\* before the last space of the first 300 when that space is at position 250
\* or beyond, and otherwise the first 300 characters with an ellipsis marker;
\* a text of at most 300 characters is its own snippet.
CexC15 ==
    fn.op = "match_snippet" =>
        IF fn.text.len > SNIPPET_LIMIT
        THEN LET last_space == RFindSpace(fn.text, SNIPPET_LIMIT)
             IN  IF last_space >= SNIPPET_BREAK
                 THEN fn.out.kept = last_space
                 ELSE fn.out.kept = SNIPPET_LIMIT /\ fn.out.ellipsis
        ELSE fn.out.kept = fn.text.len /\ ~fn.out.ellipsis

\* The identifiers of the lines of a text, in order.
LineIds(text) == [i \in DOMAIN text |-> text[i].id]

\* C16: of a text without a header line, split_into_sections returns one
\* section, labelled "Content", whose body is the whole text.
CexC16 ==
    (/\ fn.op = "split_into_sections"
     /\ \A i \in DOMAIN fn.text : fn.text[i].kind # "hdr") =>
        /\ Len(fn.out) = 1
        /\ fn.out[1].name = "Content"
        /\ fn.out[1].content = JoinLines(fn.text, 2)

\* Where a section can start: before the first line (0) and at a header line.
SectionStarts(text) == {0} \cup {i \in DOMAIN text : text[i].kind = "hdr"}

\* The sentence lines between a start and the next header line.
BodyIds(text, h) ==
    LET later == {i \in SectionStarts(text) : i > h}
        end == IF later = {} THEN Len(text) + 1
               ELSE CHOOSE i \in later : \A j \in later : i <= j
    IN  LineIds(SelectSeq(SubSeq(text, h + 1, end - 1), LAMBDA line : line.kind = "sent"))

\* The sections are those of the given starts, in the order of the text: each
\* under its header line's label and holding the sentence lines that follow
\* it; without any, the one section "Content".
SectionsAre(text, out, kept) ==
    IF kept = {}
    THEN Len(out) = 1 /\ out[1].name = "Content"
    ELSE /\ Len(out) = Cardinality(kept)
         /\ \A h \in kept :
               LET k == Cardinality({g \in kept : g <= h})
               IN  /\ out[k].name = IF h = 0 THEN "Unknown" ELSE text[h].label
                   /\ out[k].content.ids = BodyIds(text, h)

\* C17 (amended): split_into_sections returns, in the order of the text, one
\* section for each header line that is followed by a non-blank line before
\* the next header line, labelled with the header line and holding those
\* lines, and before them one section for the lines ahead of the first header
\* line if there are any; every section without a body is left out.
InvC17 ==
    fn.op = "split_into_sections" =>
        SectionsAre(fn.text, fn.out,
                    {h \in SectionStarts(fn.text) : BodyIds(fn.text, h) # <<>>})

\* A header line with its body, then two header lines without one.
WitC17 ==
    /\ fn.op = "split_into_sections"
    /\ Len(fn.text) = 4
    /\ fn.text[1].kind = "hdr" /\ fn.text[2].kind = "sent"
    /\ fn.text[3].kind = "hdr" /\ fn.text[4].kind = "hdr"
    /\ Len(fn.out) = 1

\* C17 as claimed: every header line starts a section; only the section ahead
\* of the first header line is left out when it has no body.
CexC17 ==
    fn.op = "split_into_sections" =>
        SectionsAre(fn.text, fn.out,
                    {h \in SectionStarts(fn.text) : h > 0 \/ BodyIds(fn.text, h) # <<>>})

\* C18: apply_overlap_sliding_window returns as many chunks as it is given;
\* it returns them unchanged when overlap_tokens <= 0; its first chunk is the
\* first given; and every later chunk i is the last min(overlap_tokens, word
\* count) words of the given chunk i-1, a blank line, and the given chunk i,
\* with nothing of any other chunk.
InvC18 ==
    fn.op = "apply_overlap_sliding_window" =>
        LET chunks == fn.chunks
            out == fn.out
        IN  /\ Len(out) = Len(chunks)
            /\ fn.overlap_tokens <= 0 => out = chunks
            /\ chunks # <<>> => out[1] = chunks[1]
            /\ fn.overlap_tokens > 0 =>
                  \A i \in 2..Len(chunks) :
                     LET taken == Min(fn.overlap_tokens, chunks[i - 1].w)
                     IN  /\ out[i].w = taken + chunks[i].w
                         /\ out[i].c = (taken * chunks[i - 1].wl - 1) + 2 + chunks[i].c
                         /\ out[i].ids = chunks[i - 1].ids \o chunks[i].ids

\* Three chunks or more, and an overlap that takes the whole second chunk.
WitC18 ==
    /\ fn.op = "apply_overlap_sliding_window"
    /\ Len(fn.chunks) >= 3
    /\ fn.overlap_tokens > fn.chunks[2].w
    /\ Len(fn.out) = Len(fn.chunks)

\* C19: the splitting loop of chunk_text_with_overlap, run with the overlap of
\* 100 characters create_coarse_chunks gives it and any max_length >= 1, moves
\* its start index forward at every iteration that does not end it.
CexC19 ==
    [][(/\ fn.op = "chunk_text_with_overlap" /\ fn.pc = "loop"
        /\ fn'.pc = "loop") => fn'.start > fn.start]_vars

\* C20: an ingest of an empty or whitespace-only text, or of a text of which
\* neither pipeline makes a chunk (as of every text shorter than the least
\* fine chunk), returns failure and writes nothing: both collections are as
\* they were before the call.
PropC20 ==
    [][(/\ ret'.op = "ingest"
        /\ \/ ret'.no_text
           \/ ret'.text_chars < FINE_CHUNK_MIN_CHARS
           \/ (ret'.n_fine = 0 /\ ret'.n_coarse = 0)) =>
          /\ ~ret'.ok
          /\ fine' = fine
          /\ coarse' = coarse]_vars

\* A whitespace-only text refused while both collections hold chunks.
WitC20 ==
    /\ ret.op = "ingest" /\ ret.no_text /\ ret.text_chars > 0
    /\ ~ret.ok
    /\ fine # {} /\ coarse # {}
    /\ Count(fine) = ret.fine_before /\ Count(coarse) = ret.coarse_before

\* C21: add_texts_to_collection returns failure and leaves both collections
\* as they were whenever the list is empty or holds no non-empty text; a call
\* that succeeds stores one entry per non-empty text under identifiers that
\* no stored entry has and that differ from one another, and keeps every
\* entry that was stored, so a text equal to a stored one becomes a new entry.
PropC21 ==
    [][ret'.op = "add" =>
          LET clean_texts == SelectSeq(ret'.texts, NonEmpty)
              new == (fine' \ fine) \cup (coarse' \ coarse)
          IN  /\ clean_texts = <<>> => ~ret'.ok /\ fine' = fine /\ coarse' = coarse
              /\ ret'.ok =>
                    /\ fine \subseteq fine' /\ coarse \subseteq coarse'
                    /\ Cardinality(new) = Len(clean_texts)
                    /\ Cardinality(IdsOf(new)) = Len(clean_texts)
                    /\ IdsOf(new) \cap (IdsOf(fine) \cup IdsOf(coarse)) = {}]_vars

\* An add has succeeded and the fine collection holds the same text under
\* two identifiers.
WitC21 ==
    /\ ret.op = "add" /\ ret.ok
    /\ \E e1 \in fine, e2 \in fine : e1.id # e2.id /\ e1.text = e2.text

\* C22: in every state the total of get_collection_stats is the sum of its
\* two counts, and a report made of the store after a delete_all_chunks that
\* returned True shows no entry in either collection, whatever was stored
\* before the deletion.
InvC22 ==
    /\ get_collection_stats.total_documents
          = get_collection_stats.fine_chunks_count
            + get_collection_stats.coarse_chunks_count
    /\ ret.op = "delete_all" /\ ret.ok =>
          get_collection_stats = [fine_chunks_count |-> 0, coarse_chunks_count |-> 0,
                                  total_documents |-> 0]
    /\ ret.op = "stats" /\ ret.ok =>
          /\ ret.stats[1] = get_collection_stats
          /\ ret.stats[1].fine_chunks_count = Cardinality(fine)
          /\ ret.stats[1].coarse_chunks_count = Cardinality(coarse)
          /\ ret.after.op = "delete_all" /\ ret.after.ok =>
                ret.stats[1].total_documents = 0

\* Statistics were reported right after a successful delete_all_chunks that
\* found entries in both collections.
WitC22 ==
    /\ ret.op = "stats" /\ ret.ok
    /\ ret.after.op = "delete_all" /\ ret.after.ok
    /\ ret.after.fine_before > 1 /\ ret.after.coarse_before > 0

\* C23: the two collections are separate namespaces: a call of
\* add_texts_to_collection changes the named collection alone, no identifier
\* is stored in both collections, and every result of search_collection is
\* the text and metadata of an entry of the named collection and carries
\* that collection's name.
PropC23 ==
    [][/\ ret'.op = "add" =>
             IF ret'.collection = "fine" THEN coarse' = coarse ELSE fine' = fine
       /\ IdsOf(fine') \cap IdsOf(coarse') = {}
       /\ ret'.op = "search" =>
             \A i \in DOMAIN ret'.results :
                /\ ret'.results[i].collection = ret'.collection
                /\ \E e \in (IF ret'.collection = "fine" THEN fine ELSE coarse) :
                      /\ e.text = ret'.results[i].text
                      /\ e.md = ret'.results[i].metadata]_vars

\* A search of the coarse collection has returned a result while both
\* collections hold entries, the fine collection more than the coarse.
WitC23 ==
    /\ ret.op = "search" /\ ret.collection = "coarse" /\ ret.results # <<>>
    /\ Cardinality(fine) > Cardinality(coarse)

\* C26: every call of add_texts_to_collection with at least one non-empty
\* text and one metadata dictionary per text, in which neither the embedding
\* nor the index fails, returns True, adds as many entries as there are
\* non-empty texts, and stores each text with the dictionary written for its
\* own position, null fields removed.
CexC26 ==
    [][(/\ ret'.op = "add"
        /\ ret'.metadatas # <<>>
        /\ ~ret'.fault
        /\ SelectSeq(ret'.texts, NonEmpty) # <<>>) =>
          LET new == (fine' \ fine) \cup (coarse' \ coarse)
          IN  /\ ret'.ok
              /\ Cardinality(new) = Len(SelectSeq(ret'.texts, NonEmpty))
              /\ \A e \in new :
                    /\ e.text = ret'.texts[e.md.pos]
                    /\ e.md = CleanMetadata(ret'.metadatas[1][e.md.pos])]_vars

\* C25: when ingest_paper_text and delete_all_chunks have run at the same
\* time and both have returned True, the entries the ingest wrote are all
\* stored, in both collections, or none of them is stored in either.
CexC25 ==
    (/\ fn.op = "race"
     /\ fn.ingest_pc = "done" /\ fn.delete_pc = "done"
     /\ fn.ingest_ok /\ fn.delete_ok) =>
       \/ fn.fine_ids \subseteq IdsOf(fine) /\ fn.coarse_ids \subseteq IdsOf(coarse)
       \/ fn.fine_ids \cap IdsOf(fine) = {} /\ fn.coarse_ids \cap IdsOf(coarse) = {}

\* C24: for every non-empty text the output of preprocess_text has no more
\* lines than the text, and each page-number line and each line of capitals
\* in the output is a line that the text already had as a page-number line
\* or as a line of capitals.
CexC24 ==
    (fn.op = "preprocess_text" /\ fn.text # <<>>) =>
       /\ Len(fn.out) <= Len(fn.text)
       /\ \A i \in DOMAIN fn.out :
             fn.out[i].kind \in {"page", "caps"} =>
                \E j \in DOMAIN fn.text :
                   /\ fn.text[j].kind = fn.out[i].kind
                   /\ fn.text[j].label = fn.out[i].label

\* The sections whose body has at least min_tokens tokens.
LargeSections(sections, config) ==
    {i \in DOMAIN sections : count_tokens(sections[i].content) >= config.min_tokens}

\* The sections that split_into_sections found under a header or before the
\* first header.
FoundSections(sections) == {i \in DOMAIN sections : sections[i].name # "Content"}

\* The source lines whose text a sequence of chunks holds.
IdSet(chunks) == {Flatten(chunks)[k] : k \in 1..Len(Flatten(chunks))}

\* The body of a section holds no blank line, is one paragraph, and becomes
\* one chunk if it has at least min_tokens tokens and no chunk otherwise.
OneChunkPerSection ==
    \A i \in FoundSections(fn.sections) :
       LET body == fn.sections[i].content
           paragraphs == split_into_paragraphs(Blocks(body))
           chunks == merge_paragraphs_semantically(paragraphs, fn.config)
       IN  /\ body.dbl = 0
           /\ paragraphs = <<body>>
           /\ chunks = IF count_tokens(body) >= fn.config.min_tokens
                       THEN <<body>> ELSE <<>>

CexC28 ==
    fn.op = "create_coarse_chunks" =>
       \A i \in DOMAIN fn.incoming :
          fn.incoming[i].c >= fn.p.min_chars =>
             IdSet(<<fn.incoming[i]>>) \subseteq IdSet(fn.out)

\* The runs of sentences that the loop of create_fine_chunks closes, in
\* order, each with the number of its sentences and what closed it: the
\* character limit, the sentence limit or the end of the input.
RECURSIVE ClosedRuns(_, _, _, _, _)
ClosedRuns(sentences, i, current, n, p) ==
    IF i > Len(sentences)
    THEN IF NonEmpty(current) THEN <<[chunk |-> current, n |-> n, close |-> "end"]>>
         ELSE <<>>
    ELSE LET potential == IF NonEmpty(current) THEN Join(current, 1, sentences[i])
                          ELSE sentences[i]
         IN  IF potential.c > p.max_chars /\ NonEmpty(current)
             THEN <<[chunk |-> current, n |-> n, close |-> "chars"]>>
                  \o ClosedRuns(sentences, i + 1, sentences[i], 1, p)
             ELSE IF n >= p.max_sentences /\ NonEmpty(current)
                  THEN <<[chunk |-> current, n |-> n, close |-> "sentences"]>>
                       \o ClosedRuns(sentences, i + 1, sentences[i], 1, p)
                  ELSE ClosedRuns(sentences, i + 1, potential, n + 1, p)

RunsOfCall ==
    LET sentences == SplitSentences(fn.text, fn.wl, 1, 0)
    IN  IF sentences = <<>> THEN <<>>
        ELSE ClosedRuns(sentences, 1, EmptyStr(fn.wl), 0, fn.p)

\* A run meets the minimums that its kind of close tests.
RunMeetsMinimums(run, p) ==
    /\ run.chunk.c >= p.min_chars
    /\ run.close # "sentences" => run.n >= p.min_sentences

\* C29 (amended): the runs closed by create_fine_chunks hold every sentence
\* once, in input order; the chunks returned are, in order, the runs that
\* meet the minimums tested when they were closed (characters and sentences
\* at the character limit and at the end of the input, characters alone at
\* the sentence limit): the sentences absent from the output are those of
\* the runs that fail them, wherever in the text the run was closed.
InvC29 ==
    fn.op = "create_fine_chunks" =>
       LET sentences == SplitSentences(fn.text, fn.wl, 1, 0)
           kept == SelectSeq(RunsOfCall, LAMBDA run : RunMeetsMinimums(run, fn.p))
       IN  /\ Flatten([k \in DOMAIN RunsOfCall |-> RunsOfCall[k].chunk])
                = Flatten(sentences)
           /\ fn.out = [k \in DOMAIN kept |-> kept[k].chunk]
           /\ \A i, j \in DOMAIN Flatten(fn.out) :
                 i < j => Flatten(fn.out)[i] < Flatten(fn.out)[j]

\* A run closed by the character limit before the end of the text was
\* dropped, and a later run was returned.
WitC29 ==
    /\ fn.op = "create_fine_chunks"
    /\ fn.out # <<>>
    /\ \E k \in DOMAIN RunsOfCall :
          /\ RunsOfCall[k].close = "chars"
          /\ ~RunMeetsMinimums(RunsOfCall[k], fn.p)
          /\ RunsOfCall[k].chunk.ids[1] < fn.out[1].ids[1]

\* C29 as claimed: every run closed before the end of the input is in the
\* output.
CexC29 ==
    fn.op = "create_fine_chunks" =>
       \A k \in DOMAIN RunsOfCall :
          RunsOfCall[k].close # "end" =>
             IdSet(<<RunsOfCall[k].chunk>>) \subseteq IdSet(fn.out)

\* C30: once the route has scheduled the update for a message, the summary
\* stored for the chat eventually accounts for that message.
CexC30 ==
    \A message \in Messages :
       (fn.op = "chat" /\ \E i \in DOMAIN fn.tasks : fn.tasks[i].for = message)
          ~> (fn.op = "chat" /\ message \in MessagesIn(fn.summary))

StoreInit ==
    /\ fine = {}
    /\ coarse = {}
    /\ nextId = 0
    /\ ret = [op |-> "none"]
    /\ ingested = {}
    /\ succeeded = {}
    /\ calls = 0

Init == StoreInit /\ FnInit

Next ==
    \/ IngestPaperText
    \/ DeleteAllChunks
    \/ SearchCollection
    \/ SearchBothCollections
    \/ SuggestCitation
    \/ GetCollectionStats

Spec == Init /\ [][Next]_vars

SpecFine == Init /\ [][CallCreateFineChunks]_vars

SpecMerge == Init /\ [][CallMergeParagraphs]_vars

SpecCoarse == Init /\ [][CallCreateCoarseChunks]_vars

SpecSections == Init /\ [][CallSplitIntoSections]_vars

SpecOverlap == Init /\ [][CallApplyOverlap]_vars

SpecSplit ==
    /\ Init
    /\ [][CallChunkTextWithOverlap \/ SplitStep]_vars
    /\ WF_vars(SplitStep)

SpecAdd ==
    Init /\ [][AddTextsToCollection \/ DeleteAllChunks \/ SearchCollection]_vars

SpecRace ==
    Init /\ [][IngestPaperText \/ StartRace \/ RaceAddFine \/ RaceAddCoarse
               \/ RaceGet \/ RaceDeleteFine \/ RaceDeleteCoarse]_vars

SpecNormalize == Init /\ [][CallPreprocessText]_vars

SpecStructure == Init /\ [][CallAdvancedChunkByStructure]_vars

\* A scheduled background task is run: the server runs the tasks of a response
\* after sending it.
SpecSummary ==
    /\ Init
    /\ [][CreateSummary \/ UpdateChatSummary \/ UpdateSummaryInline
           \/ RunBackgroundTask]_vars
    /\ WF_vars(RunBackgroundTask)

SpecSnippet == Init /\ [][CallMatchSnippet]_vars

====
